---------------------------- MODULE Spec2Model ----------------------------
(***************************************************************************)
(* A model of components/support/ffi/src/handle_map.rs: the generational   *)
(* slot arena HandleMap, the Handle <-> u64 codec, and the locking wrapper  *)
(* ConcurrentHandleMap (RwLock<HandleMap<Mutex<T>>>).                       *)
(*                                                                         *)
(* Vec indices are 0-based in the source; a TLA+ sequence is 1-based, so    *)
(* slot i of the source is entries[i + 1] here (see EntryAt).               *)
(***************************************************************************)
EXTENDS Integers, Sequences, FiniteSets, TLC

VARIABLES
    maps,                   \* the two HandleMap values of the sequential program
    HANDLE_MAP_ID_COUNTER,  \* the process-wide AtomicUsize behind next_handle_map_id
    debug_build,            \* build profile: overflow checks and assert_valid are on
    fault,                  \* "none", or the message of the panic that ended the run
    tokens,                 \* history: handles insert returned, and what became of them
    last,                   \* the last call made and what it returned
    inserts,                \* history: number of insert calls made so far
    codec_in,               \* the u64 last handed to Handle::from_u64
    codec_out,              \* what from_u64 returned for it
    encode_in,              \* the Handle last handed to Handle::into_u64
    encode_out,             \* what into_u64 returned for it
    cmap,                   \* the HandleMap<Mutex<T>> inside the ConcurrentHandleMap
    rwlock,                 \* the RwLock around it: who holds it, and its poison flag
    threads,                \* per thread: its call of the ConcurrentHandleMap
    calls                   \* history: number of such calls made so far

map_vars == <<maps, HANDLE_MAP_ID_COUNTER, debug_build, fault, tokens, last, inserts>>

codec_vars == <<codec_in, codec_out, encode_in, encode_out>>

conc_vars == <<cmap, rwlock, threads, calls>>

vars == <<map_vars, codec_vars, conc_vars>>

----------------------------------------------------------------------------
(* Program constants *)

U16_MAX == 65535

U16_MOD == U16_MAX + 1

MAX_CAPACITY == 32767

MIN_CAPACITY == 4

HANDLE_MAGIC == 16723          \* 0x4153

----------------------------------------------------------------------------
(* Bounds of the model *)

MaxValue == 2                  \* stored values are 1..MaxValue

MaxInserts == 2                \* insert calls per run

MaxTokens == 2                 \* handles whose history is followed

MaxSlack == 0                  \* free slots left by the fullest initial arenas

NumThreads == 2                \* threads calling the ConcurrentHandleMap

MaxCalls == 3                  \* calls of the ConcurrentHandleMap per run

Values == 1..MaxValue

MapNames == {"A", "B"}

----------------------------------------------------------------------------
(* EntryState<T> and Entry<T> *)

Active(v) == [tag |-> "Active", v |-> v]

InFreeList(i) == [tag |-> "InFreeList", next |-> i]

EndOfFreeList == [tag |-> "EndOfFreeList"]

is_end_of_list(s) == s.tag = "EndOfFreeList"

is_occupied(s) == s.tag = "Active"

Entry(version, state) == [version |-> version, state |-> state]

EntryAt(m, i) == m.entries[i + 1]

len(m) == m.num_entries

capacity(m) == Len(m.entries)

(* to_u16: the assert of the cast, and the cast *)
to_u16_fits(v) == v <= U16_MAX

to_u16(v) == v % U16_MOD

----------------------------------------------------------------------------
(* next_handle_map_id: fetch_add(1) returns the old value; the id is the    *)
(* old value plus one, cast to u16.                                         *)

next_handle_map_id(counter) == (counter + 1) % U16_MOD

----------------------------------------------------------------------------
(* Handle and its u64 encoding.  A u64 is kept as its four 16-bit words,    *)
(* most significant first; shifts are by whole words, as in the source.     *)

Handle(map_id, version, index) ==
    [map_id |-> map_id, version |-> version, index |-> index]

NoHandle == Handle(0, 0, 0)

(* x as u64, for a u16 x *)
as_u64(x) == <<0, 0, 0, x>>

(* v as u16 *)
as_u16(v) == v[4]

(* v << (16 * words) and v >> (16 * words) on a u64 *)
shl(v, words) == SubSeq(v, words + 1, 4) \o [i \in 1..words |-> 0]

shr(v, words) == [i \in 1..words |-> 0] \o SubSeq(v, 1, 4 - words)

(* a | b on two words of n bits, bit by bit; 0 | b = b and a | 0 = a *)
RECURSIVE bit_or_bits(_, _, _)
bit_or_bits(a, b, n) ==
    IF n = 0 THEN 0
    ELSE IF a = 0 THEN b
    ELSE IF b = 0 THEN a
    ELSE (IF a % 2 = 1 \/ b % 2 = 1 THEN 1 ELSE 0)
         + 2 * bit_or_bits(a \div 2, b \div 2, n - 1)

(* x | y on u64 *)
bit_or(x, y) ==
    <<bit_or_bits(x[1], y[1], 16), bit_or_bits(x[2], y[2], 16),
      bit_or_bits(x[3], y[3], 16), bit_or_bits(x[4], y[4], 16)>>

(* v & 1 on u64 *)
low_bit(v) == v[4] % 2

(* into_u64 shifting the map id as far as the magic *)
into_u64_map_id_high(h) ==
    bit_or(bit_or(bit_or(shl(as_u64(HANDLE_MAGIC), 3), shl(as_u64(h.map_id), 3)),
                  shl(as_u64(h.index), 1)),
           as_u64(h.version))

(* Handle::into_u64 *)
into_u64(h) ==
    bit_or(bit_or(bit_or(shl(as_u64(HANDLE_MAGIC), 3), shl(as_u64(h.map_id), 2)),
                  shl(as_u64(h.index), 1)),
           as_u64(h.version))

(* is_valid without the test of the low bit *)
is_valid_magic_only(v) == shr(v, 3) = as_u64(HANDLE_MAGIC)

(* Handle::is_valid *)
is_valid(v) == shr(v, 3) = as_u64(HANDLE_MAGIC) /\ low_bit(v) = 0

(* from_u64 reading the index and the version from each other's word *)
from_u64_swapped(v) ==
    IF ~is_valid(v)
    THEN [result |-> "InvalidHandle", handle |-> NoHandle]
    ELSE [result |-> "Ok",
          handle |-> Handle(as_u16(shr(v, 2)), as_u16(shr(v, 1)), as_u16(v))]

(* Handle::from_u64.  The result is [result, handle].  *)
from_u64(v) ==
    IF ~is_valid(v)
    THEN [result |-> "InvalidHandle", handle |-> NoHandle]
    ELSE [result |-> "Ok",
          handle |-> Handle(as_u16(shr(v, 2)), as_u16(v), as_u16(shr(v, 1)))]

----------------------------------------------------------------------------
(* HandleMap::new_with_capacity.  The result is [fault, map].               *)

NoMap == [id |-> 0, first_free |-> 0, num_entries |-> 0, entries |-> <<>>]

new_with_capacity(request, id) ==
    IF request > MAX_CAPACITY
    THEN [fault |-> "HandleMap capacity is limited", map |-> NoMap]
    ELSE LET cap == IF request > MIN_CAPACITY THEN request ELSE MIN_CAPACITY
         IN  IF \E i \in 0..(cap - 2) : ~to_u16_fits(i + 1)
             THEN [fault |-> "Bug: Doesn't fit in u16", map |-> NoMap]
             ELSE [fault |-> "none",
                   map |-> [id |-> id,
                            first_free |-> 0,
                            num_entries |-> 0,
                            entries |->
                                [j \in 1..(cap - 1) |-> Entry(1, InFreeList(to_u16(j)))]
                                \o <<Entry(1, EndOfFreeList)>>]]

----------------------------------------------------------------------------
(* HandleMap::assert_valid: "none", or the message of the assert that fails *)

RECURSIVE free_list_walk(_, _, _)
(* The loop of assert_valid: follows the list from `next`, marking the      *)
(* visited slots; the result is [fault, seen].                              *)
free_list_walk(m, next, seen) ==
    IF next > capacity(m)
    THEN [fault |-> "Free list contains out of bounds index!", seen |-> seen]
    ELSE IF next = capacity(m)
    THEN [fault |-> "index out of bounds", seen |-> seen]
    ELSE IF is_occupied(EntryAt(m, next).state)
    THEN [fault |-> "Free list has an index that shouldn't be free!", seen |-> seen]
    ELSE IF next \in seen
    THEN [fault |-> "Free list hit an index more than once! Cycle detected!", seen |-> seen]
    ELSE IF EntryAt(m, next).state.tag = "InFreeList"
    THEN free_list_walk(m, EntryAt(m, next).state.next, seen \cup {next})
    ELSE [fault |-> "none", seen |-> seen \cup {next}]

assert_valid(m) ==
    IF len(m) = capacity(m) THEN "assert_ne!(self.len(), self.capacity())"
    ELSE IF capacity(m) > MAX_CAPACITY THEN "Entries too large"
    ELSE IF Cardinality({i \in 0..(capacity(m) - 1) :
                            is_end_of_list(EntryAt(m, i).state)}) # 1
    THEN "More than one entry think's it's the end of the list, or no entries do"
    ELSE LET walk == free_list_walk(m, m.first_free, {})
             should_be_free == {i \in 0..(capacity(m) - 1) :
                                   ~is_occupied(EntryAt(m, i).state)}
         IN  IF walk.fault # "none" THEN walk.fault
             ELSE IF walk.seen # should_be_free
             THEN "Free list missed item, or contains an item it shouldn't"
             ELSE IF m.num_entries # capacity(m) - Cardinality(should_be_free)
             THEN "num_entries doesn't reflect the actual number of entries"
             ELSE "none"

(* debug_check_valid: assert_valid under cfg(any(debug_assertions, test)) *)
debug_check_valid(m, dbg) == IF dbg THEN assert_valid(m) ELSE "none"

----------------------------------------------------------------------------
(* HandleMap::ensure_capacity.  The result is [fault, map].                 *)

RECURSIVE double_until_above(_, _)
(* let mut next_cap = capacity; while next_cap <= cap_at_least { next_cap *= 2 } *)
double_until_above(next_cap, cap_at_least) ==
    IF next_cap <= cap_at_least
    THEN double_until_above(next_cap * 2, cap_at_least)
    ELSE next_cap

(* Growth that builds the enlarged free list anew instead of keeping the   *)
(* entries already there                                                    *)
push_new_entries_fresh(m, next_cap) ==
    IF capacity(m) < next_cap - 1
    THEN [m EXCEPT
            !.entries = [j \in 1..(next_cap - 2) |-> Entry(1, InFreeList(to_u16(j)))]
                        \o <<Entry(1, EndOfFreeList)>>,
            !.first_free = 0]
    ELSE m

RECURSIVE push_new_entries_past(_, _)
(* The loop running while self.entries.len() <= next_cap *)
push_new_entries_past(m, next_cap) ==
    IF capacity(m) <= next_cap
    THEN push_new_entries_past(
             [m EXCEPT !.entries = Append(@, Entry(1, InFreeList(m.first_free))),
                       !.first_free = to_u16(capacity(m))],
             next_cap)
    ELSE m

(* Growth that puts the new entries behind the free list: the old end of   *)
(* the list is linked to each new entry, which becomes the end              *)
RECURSIVE push_new_entries_behind(_, _)
push_new_entries_behind(m, next_cap) ==
    IF capacity(m) < next_cap - 1
    THEN LET end == CHOOSE i \in 0..(capacity(m) - 1) : is_end_of_list(EntryAt(m, i).state)
         IN  push_new_entries_behind(
                 [m EXCEPT !.entries =
                    Append([@ EXCEPT ![end + 1].state = InFreeList(to_u16(capacity(m)))],
                           Entry(1, EndOfFreeList))],
                 next_cap)
    ELSE m

RECURSIVE push_new_entries(_, _)
(* while self.entries.len() < next_cap - 1 { push; first_free = len - 1 } *)
push_new_entries(m, next_cap) ==
    IF capacity(m) < next_cap - 1
    THEN push_new_entries(
             [m EXCEPT !.entries = Append(@, Entry(1, InFreeList(m.first_free))),
                       !.first_free = to_u16(capacity(m))],
             next_cap)
    ELSE m

(* next_cap = next_cap.min(MAX_CAPACITY) *)
clamp_capacity(next_cap) == IF next_cap < MAX_CAPACITY THEN next_cap ELSE MAX_CAPACITY

ensure_capacity(m, cap_at_least, dbg) ==
    IF len(m) = capacity(m)
    THEN [fault |-> "Bug: should have grown by now", map |-> m]
    ELSE IF cap_at_least > MAX_CAPACITY
    THEN [fault |-> "HandleMap overfilled", map |-> m]
    ELSE IF capacity(m) > cap_at_least
    THEN [fault |-> "none", map |-> m]
    ELSE LET next_cap == clamp_capacity(double_until_above(capacity(m), cap_at_least))
         IN  IF is_occupied(EntryAt(m, m.first_free).state)
             THEN [fault |-> "Bug: HandleMap.first_free points at occupied index",
                   map |-> m]
             ELSE LET grown == push_new_entries(m, next_cap)
                  IN  [fault |-> debug_check_valid(grown, dbg), map |-> grown]

----------------------------------------------------------------------------
(* HandleMap::insert.  The result is [fault, map, handle].                  *)

(* insert that takes the version back to what it was before the delete *)
insert_version_back(version, dbg) == [overflow |-> FALSE, version |-> version - 1]

(* entry.version += 1; if entry.version == 0 { entry.version += 2 }.  The   *)
(* addition is on a u16: a build with overflow checks panics at 65535 + 1,  *)
(* a build without wraps to 0.  The result is [overflow, version].          *)
insert_version(version, dbg) ==
    IF version + 1 > U16_MAX
    THEN IF dbg
         THEN [overflow |-> TRUE, version |-> version]
         ELSE [overflow |-> FALSE,
               version |-> IF (version + 1) % U16_MOD = 0
                           THEN ((version + 1) % U16_MOD) + 2
                           ELSE (version + 1) % U16_MOD]
    ELSE [overflow |-> FALSE, version |-> version + 1]

(* The match that also pops the end of the list *)
next_free_or_end(state) ==
    IF state.tag = "InFreeList"
    THEN [fault |-> "none", next |-> state.next]
    ELSE IF state.tag = "EndOfFreeList"
    THEN [fault |-> "none", next |-> 0]
    ELSE [fault |->
            "Bug: next_index pointed at non-free list entry (or end of list)",
          next |-> 0]

(* The match on the popped entry's state: InFreeList(i) => i, _ => panic.   *)
(* The result is [fault, next].                                             *)
next_free(state) ==
    IF state.tag = "InFreeList"
    THEN [fault |-> "none", next |-> state.next]
    ELSE [fault |->
            "Bug: next_index pointed at non-free list entry (or end of list)",
          next |-> 0]

(* insert that counts the new entry before it looks at the popped slot *)
insert_counting_first(m, v, dbg) ==
    LET grown == ensure_capacity(m, len(m) + 1, dbg)
        g == [grown.map EXCEPT !.num_entries = @ + 1]
        index == g.first_free
        entry == EntryAt(g, index)
        new_first_free == next_free(entry.state)
    IN  IF grown.fault # "none"
        THEN [fault |-> grown.fault, map |-> grown.map, handle |-> NoHandle]
        ELSE IF new_first_free.fault # "none"
        THEN [fault |-> new_first_free.fault, map |-> g, handle |-> NoHandle]
        ELSE LET bumped == insert_version(entry.version, dbg)
                 done == [g EXCEPT
                            !.entries[index + 1] = Entry(bumped.version, Active(v)),
                            !.first_free = new_first_free.next]
             IN  IF bumped.overflow
                 THEN [fault |-> "attempt to add with overflow",
                       map |-> g, handle |-> NoHandle]
                 ELSE [fault |-> debug_check_valid(done, dbg),
                       map |-> done,
                       handle |-> Handle(g.id, bumped.version, index)]

insert(m, v, dbg) ==
    LET grown == ensure_capacity(m, len(m) + 1, dbg)
        g == grown.map
        index == g.first_free
        entry == EntryAt(g, index)
        new_first_free == next_free(entry.state)
    IN  IF grown.fault # "none"
        THEN [fault |-> grown.fault, map |-> g, handle |-> NoHandle]
        ELSE IF new_first_free.fault # "none"
        THEN [fault |-> new_first_free.fault, map |-> g, handle |-> NoHandle]
        ELSE LET bumped == insert_version(entry.version, dbg)
                 done == [g EXCEPT
                            !.entries[index + 1] = Entry(bumped.version, Active(v)),
                            !.first_free = new_first_free.next,
                            !.num_entries = @ + 1]
             IN  IF bumped.overflow
                 THEN [fault |-> "attempt to add with overflow",
                       map |-> g, handle |-> NoHandle]
                 ELSE [fault |-> debug_check_valid(done, dbg),
                       map |-> done,
                       handle |-> Handle(g.id, bumped.version, index)]

----------------------------------------------------------------------------
(* check_handle without the test of the map id *)
check_handle_any_map(m, h) ==
    IF h.index >= capacity(m) THEN "IndexPastEnd"
    ELSE IF EntryAt(m, h.index).version # h.version THEN "StaleVersion"
    ELSE "Ok"

(* check_handle testing the index before the map id *)
check_handle_index_first(m, h) ==
    IF h.index >= capacity(m) THEN "IndexPastEnd"
    ELSE IF h.map_id # m.id THEN "WrongMap"
    ELSE IF EntryAt(m, h.index).version # h.version THEN "StaleVersion"
    ELSE "Ok"

(* check_handle without the comparison of versions *)
check_handle_no_version(m, h) ==
    IF h.map_id # m.id THEN "WrongMap"
    ELSE IF h.index >= capacity(m) THEN "IndexPastEnd"
    ELSE "Ok"

(* HandleMap::check_handle: "Ok", or the HandleError                        *)

check_handle(m, h) ==
    IF h.map_id # m.id THEN "WrongMap"
    ELSE IF h.index >= capacity(m) THEN "IndexPastEnd"
    ELSE IF EntryAt(m, h.index).version # h.version THEN "StaleVersion"
    ELSE "Ok"

(* delete moving the version on to the next even value *)
delete_version_by_two(version) == version + 2

(* delete leaving the version as it was *)
delete_version_unchanged(version) == version

(* entry.version += 1 in delete: the version is even there, so below U16_MAX *)
delete_version(version) == version + 1

(* delete that counts the entry out before it validates the handle *)
delete_counting_first(m, h, dbg) ==
    LET checked == check_handle(m, h)
        counted == [m EXCEPT !.num_entries = @ - 1]
    IN  IF checked # "Ok"
        THEN [fault |-> "none", map |-> counted, result |-> checked]
        ELSE IF ~is_occupied(EntryAt(m, h.index).state)
        THEN [fault |-> "Bug: handle references unoccupied entry",
              map |-> counted, result |-> "panic"]
        ELSE LET done == [counted EXCEPT
                            !.entries[h.index + 1] =
                                Entry(delete_version(@.version), InFreeList(m.first_free)),
                            !.first_free = h.index]
                 valid == debug_check_valid(done, dbg)
             IN  [fault |-> valid, map |-> done,
                  result |-> IF valid = "none" THEN "Ok" ELSE "panic"]

(* delete that leaves num_entries as it was *)
delete_not_counting(m, h, dbg) ==
    LET checked == check_handle(m, h)
    IN  IF checked # "Ok"
        THEN [fault |-> "none", map |-> m, result |-> checked]
        ELSE IF ~is_occupied(EntryAt(m, h.index).state)
        THEN [fault |-> "Bug: handle references unoccupied entry",
              map |-> m, result |-> "panic"]
        ELSE LET done == [m EXCEPT
                            !.entries[h.index + 1] =
                                Entry(delete_version(@.version), InFreeList(m.first_free)),
                            !.first_free = h.index]
                 valid == debug_check_valid(done, dbg)
             IN  [fault |-> valid, map |-> done,
                  result |-> IF valid = "none" THEN "Ok" ELSE "panic"]

(* delete that reads self.first_free after it has overwritten it: the freed *)
(* slot links to itself                                                     *)
delete_self_linked(m, h, dbg) ==
    LET checked == check_handle(m, h)
    IN  IF checked # "Ok"
        THEN [fault |-> "none", map |-> m, result |-> checked]
        ELSE IF ~is_occupied(EntryAt(m, h.index).state)
        THEN [fault |-> "Bug: handle references unoccupied entry",
              map |-> m, result |-> "panic"]
        ELSE LET done == [m EXCEPT
                            !.entries[h.index + 1] =
                                Entry(delete_version(@.version), InFreeList(h.index)),
                            !.num_entries = @ - 1,
                            !.first_free = h.index]
                 valid == debug_check_valid(done, dbg)
             IN  [fault |-> valid, map |-> done,
                  result |-> IF valid = "none" THEN "Ok" ELSE "panic"]

(* HandleMap::delete.  The result is [fault, map, result].                  *)
delete(m, h, dbg) ==
    LET checked == check_handle(m, h)
    IN  IF checked # "Ok"
        THEN [fault |-> "none", map |-> m, result |-> checked]
        ELSE IF ~is_occupied(EntryAt(m, h.index).state)
        THEN [fault |-> "Bug: handle references unoccupied entry",
              map |-> m, result |-> "panic"]
        ELSE LET done == [m EXCEPT
                            !.entries[h.index + 1] =
                                Entry(delete_version(@.version), InFreeList(m.first_free)),
                            !.num_entries = @ - 1,
                            !.first_free = h.index]
                 valid == debug_check_valid(done, dbg)
             IN  [fault |-> valid, map |-> done,
                  result |-> IF valid = "none" THEN "Ok" ELSE "panic"]

(* HandleMap::get and get_mut: the validation and the item.  The result is  *)
(* [fault, result, item].                                                   *)
get(m, h) ==
    LET checked == check_handle(m, h)
    IN  IF checked # "Ok"
        THEN [fault |-> "none", result |-> checked, item |-> 0]
        ELSE IF ~is_occupied(EntryAt(m, h.index).state)
        THEN [fault |-> "Bug: Handle created with invalid version",
              result |-> "panic", item |-> 0]
        ELSE [fault |-> "none", result |-> "Ok",
              item |-> EntryAt(m, h.index).state.v]

(* get_mut, and the caller's write of v through the &mut T it returns.      *)
(* The result is [fault, map, result].                                      *)
get_mut(m, h, v) ==
    LET got == get(m, h)
    IN  IF got.result # "Ok"
        THEN [fault |-> got.fault, map |-> m, result |-> got.result]
        ELSE [fault |-> "none",
              map |-> [m EXCEPT !.entries[h.index + 1].state = Active(v)],
              result |-> "Ok"]

----------------------------------------------------------------------------
(* The sequential program: two HandleMaps, A and B, constructed one after   *)
(* the other in one process, and any sequence of insert, get, get_mut and   *)
(* delete calls on them.                                                    *)
(*                                                                         *)
(* A run may start from an arena that has already been used: `prefill`      *)
(* inserts of PrefillValue were made right after construction, and before   *)
(* them `age` rounds of insert-then-delete.  Each such round pops slot 0    *)
(* and pushes it back, so it leaves the free list as it was and slot 0's    *)
(* version two higher; the prefill inserts then pop slots 0, 1, ... in      *)
(* order without growing (prefill < capacity).                              *)

PrefillValue == CHOOSE v \in Values : \A w \in Values : v <= w

used_arena(m, prefill, age, value) ==
    LET aged == [m.entries EXCEPT ![1].version = 1 + 2 * age]
    IN  [m EXCEPT
            !.entries = [j \in 1..prefill |->
                            Entry(aged[j].version + 1, Active(value))]
                        \o SubSeq(aged, prefill + 1, Len(aged)),
            !.first_free = prefill,
            !.num_entries = prefill]

(* The tokens of a used arena: slot 0's first handle, deleted and its slot  *)
(* reused age - 1 times since, when the arena is aged and slot 0 is free;   *)
(* slot 0's live handle when the arena is prefilled.                        *)
Token(mn, h, val, live, reuses) ==
    [map |-> mn, h |-> h, val |-> val, live |-> live, reuses |-> reuses]

used_tokens(mn, id, prefill, age) ==
    IF prefill > 0
    THEN <<Token(mn, Handle(id, 2 + 2 * age, 0), PrefillValue, TRUE, 0)>>
    ELSE IF age > 0
    THEN <<Token(mn, Handle(id, 2, 0), PrefillValue, FALSE, age - 1)>>
    ELSE <<>>

(* The number of even versions a slot goes through before it repeats one *)
VersionCycle == (U16_MAX - 1) \div 2

(* Fresh arenas of the minimum capacity, prefilled up to the first growth,  *)
(* and aged up to the wrap of slot 0's version.                             *)
SmallShapes ==
    { [request |-> 0, prefill |-> p, age |-> a] :
        p \in {0, MIN_CAPACITY - 1}, a \in {0, VersionCycle - 1} }
    \cup { [request |-> 0, prefill |-> 0, age |-> VersionCycle] }

(* Arenas constructed at or near the maximum capacity, and (nearly) full *)
FullShapes ==
    { [request |-> r, prefill |-> r - 1 - s, age |-> 0] :
        r \in {MAX_CAPACITY - 2, MAX_CAPACITY - 1, MAX_CAPACITY}, s \in 0..MaxSlack }
    \cup { [request |-> MAX_CAPACITY + 1, prefill |-> 0, age |-> 0] }

(* The seed of HANDLE_MAP_ID_COUNTER: chosen so that the cast to u16 wraps  *)
(* between A's id and B's.                                                  *)
Seeds == {U16_MAX - 1}

(* Number of other HandleMaps constructed between A and B *)
Between == {0, U16_MAX}

NoDecode == [result |-> "none", handle |-> NoHandle]

(* into_u64 has not been called: no u64 *)
NoEncode == <<>>

Threads == 1..NumThreads

(* RwLock::new and Mutex::new: nobody holds them, and they are not poisoned *)
Unlocked == [readers |-> {}, writer |-> {}, poisoned |-> FALSE]

Mutex(v) == [data |-> v, held_by |-> {}, poisoned |-> FALSE]

(* A thread that is in no call of the ConcurrentHandleMap *)
Idle == [pc |-> "idle", op |-> "none", u |-> as_u64(0), h |-> NoHandle,
         result |-> "none", called |-> FALSE]

NoCall == [op |-> "none", map |-> "A", h |-> NoHandle, result |-> "none", item |-> 0]

InitMaps(shapes, betweens) ==
    \E shape \in shapes, seed \in Seeds, between \in betweens, dbg \in BOOLEAN :
        LET idA == next_handle_map_id(seed)
            idB == next_handle_map_id(seed + 1 + between)
            A == new_with_capacity(shape.request, idA)
            B == new_with_capacity(MIN_CAPACITY, idB)
        IN  /\ maps = [mn \in MapNames |->
                        IF mn = "B" THEN B.map
                        ELSE IF A.fault = "none"
                        THEN used_arena(A.map, shape.prefill, shape.age, PrefillValue)
                        ELSE A.map]
            /\ HANDLE_MAP_ID_COUNTER = seed + 2 + between
            /\ debug_build = dbg
            /\ fault = A.fault
            /\ tokens = IF A.fault = "none"
                        THEN used_tokens("A", idA, shape.prefill, shape.age)
                        ELSE <<>>
            /\ last = NoCall
            /\ inserts = 0

(* No u64 has been decoded, and no ConcurrentHandleMap is in use *)
CodecIdle ==
    /\ codec_in = as_u64(0)
    /\ codec_out = NoDecode
    /\ encode_in = NoHandle
    /\ encode_out = NoEncode

ConcIdle ==
    /\ cmap = NoMap
    /\ rwlock = Unlocked
    /\ threads = [t \in Threads |-> Idle]
    /\ calls = 0

----------------------------------------------------------------------------
(* Handles a caller can present: those insert returned, and handles that    *)
(* differ from the first of them in the map id, in the index (moved to the  *)
(* first index past the end of map mn), in the version (the next even one), *)
(* or in several of these.  All have an even version, as every handle that  *)
(* from_u64 yields.                                                         *)

Perturbations == SUBSET {"map_id", "index", "version"}

perturbed(h, p, m) ==
    Handle(IF "map_id" \in p THEN (h.map_id + 1) % U16_MOD ELSE h.map_id,
           IF "version" \in p THEN (h.version + 2) % U16_MOD ELSE h.version,
           IF "index" \in p THEN capacity(m) ELSE h.index)

HandleInputs(mn, perturbations) ==
    { tokens[k].h : k \in DOMAIN tokens }
    \cup { perturbed(tokens[k].h, p, maps[mn]) : k \in DOMAIN tokens \cap {1}, p \in perturbations }

----------------------------------------------------------------------------
(* History kept beside the program *)

tokens_after_insert(mn, h, v) ==
    LET reused == [k \in DOMAIN tokens |->
                     IF /\ tokens[k].map = mn
                        /\ tokens[k].h.index = h.index
                        /\ ~tokens[k].live
                     THEN [tokens[k] EXCEPT !.reuses = @ + 1]
                     ELSE tokens[k]]
    IN  IF Len(tokens) < MaxTokens
        THEN Append(reused, Token(mn, h, v, TRUE, 0))
        ELSE reused

tokens_after_delete(mn, h) ==
    [k \in DOMAIN tokens |->
        IF tokens[k].map = mn /\ tokens[k].h = h /\ tokens[k].live
        THEN [tokens[k] EXCEPT !.live = FALSE]
        ELSE tokens[k]]

tokens_after_get_mut(mn, h, v) ==
    [k \in DOMAIN tokens |->
        IF tokens[k].map = mn /\ tokens[k].h = h /\ tokens[k].live
        THEN [tokens[k] EXCEPT !.val = v]
        ELSE tokens[k]]

----------------------------------------------------------------------------
(* The calls.  A call is made once the result of the one before it has      *)
(* been dropped (Return).                                                   *)

CallInsert(mn, v) ==
    /\ fault = "none"
    /\ last = NoCall
    /\ inserts < MaxInserts
    /\ LET r == insert(maps[mn], v, debug_build)
       IN  /\ maps' = [maps EXCEPT ![mn] = r.map]
           /\ fault' = r.fault
           /\ tokens' = IF r.fault = "none"
                        THEN tokens_after_insert(mn, r.handle, v)
                        ELSE tokens
           /\ last' = [op |-> "insert", map |-> mn, h |-> r.handle,
                       result |-> IF r.fault = "none" THEN "Ok" ELSE "panic",
                       item |-> v]
    /\ inserts' = inserts + 1
    /\ UNCHANGED <<HANDLE_MAP_ID_COUNTER, debug_build, codec_vars, conc_vars>>

CallDelete(mn, h) ==
    /\ fault = "none"
    /\ last = NoCall
    /\ LET r == delete(maps[mn], h, debug_build)
       IN  /\ maps' = [maps EXCEPT ![mn] = r.map]
           /\ fault' = r.fault
           /\ tokens' = IF r.result = "Ok" THEN tokens_after_delete(mn, h) ELSE tokens
           /\ last' = [op |-> "delete", map |-> mn, h |-> h,
                       result |-> r.result, item |-> 0]
    /\ UNCHANGED <<HANDLE_MAP_ID_COUNTER, debug_build, inserts, codec_vars, conc_vars>>

CallGet(mn, h) ==
    /\ fault = "none"
    /\ last = NoCall
    /\ LET r == get(maps[mn], h)
       IN  /\ fault' = r.fault
           /\ last' = [op |-> "get", map |-> mn, h |-> h,
                       result |-> r.result, item |-> r.item]
    /\ UNCHANGED <<maps, HANDLE_MAP_ID_COUNTER, debug_build, tokens, inserts, codec_vars, conc_vars>>

CallGetMut(mn, h, v) ==
    /\ fault = "none"
    /\ last = NoCall
    /\ LET r == get_mut(maps[mn], h, v)
       IN  /\ maps' = [maps EXCEPT ![mn] = r.map]
           /\ fault' = r.fault
           /\ tokens' = IF r.result = "Ok" THEN tokens_after_get_mut(mn, h, v) ELSE tokens
           /\ last' = [op |-> "get_mut", map |-> mn, h |-> h,
                       result |-> r.result,
                       item |-> IF r.result = "Ok" THEN v ELSE 0]
    /\ UNCHANGED <<HANDLE_MAP_ID_COUNTER, debug_build, inserts, codec_vars, conc_vars>>

Return ==
    /\ fault = "none"
    /\ last # NoCall
    /\ last' = NoCall
    /\ UNCHANGED <<maps, HANDLE_MAP_ID_COUNTER, debug_build, fault, tokens, inserts, codec_vars, conc_vars>>

NextOn(names, values, perturbations) ==
    \/ \E mn \in names, v \in values : CallInsert(mn, v)
    \/ \E mn \in names : \E h \in HandleInputs(mn, perturbations) : CallDelete(mn, h)
    \/ \E mn \in names : \E h \in HandleInputs(mn, perturbations) : CallGet(mn, h)
    \/ \E mn \in names : \E h \in HandleInputs(mn, perturbations), v \in values :
            CallGetMut(mn, h, v)
    \/ Return

FreshShape == [request |-> 0, prefill |-> 0, age |-> 0]

(* One arena, fresh or used *)
Init == InitMaps(SmallShapes, {0}) /\ CodecIdle /\ ConcIdle

Next == NextOn({"A"}, Values, Perturbations)

Spec == Init /\ [][Next]_vars

(* Two arenas used side by side *)
InitTwoMaps == InitMaps({FreshShape}, Between) /\ CodecIdle /\ ConcIdle

NextTwoMaps == NextOn(MapNames, Values, {{}})

SpecTwoMaps == InitTwoMaps /\ [][NextTwoMaps]_vars

(* One arena at the maximum capacity, used through the handles it issued *)
InitFull == InitMaps(FullShapes, {0}) /\ CodecIdle /\ ConcIdle

NextFull == NextOn({"A"}, {PrefillValue}, {{}})

SpecFull == InitFull /\ [][NextFull]_vars

----------------------------------------------------------------------------
(* Handle::from_u64 applied to 64-bit values a foreign caller may pass:     *)
(* every combination of the words below.                                    *)

MagicWords == {0, HANDLE_MAGIC, HANDLE_MAGIC + 1, HANDLE_MAGIC + 32768, U16_MAX}

FieldWords == {0, 1, 18, 4660, U16_MAX}

VersionWords == {0, 1, 2, 3, U16_MAX - 1, U16_MAX}

U64Inputs ==
    { <<magic, map_id, index, version>> :
        magic \in MagicWords, map_id \in FieldWords,
        index \in FieldWords, version \in VersionWords }

Decode(u) ==
    /\ codec_in' = u
    /\ codec_out' = from_u64(u)
    /\ encode_in' = NoHandle
    /\ encode_out' = NoEncode
    /\ UNCHANGED <<map_vars, conc_vars>>

(* Handle::into_u64 applied to handles of every combination of the words    *)
(* above, whether or not an arena issued them.                              *)
HandleWords ==
    { Handle(map_id, version, index) :
        map_id \in FieldWords, version \in VersionWords, index \in FieldWords }

Encode(h) ==
    /\ encode_in' = h
    /\ encode_out' = into_u64(h)
    /\ codec_in' = as_u64(0)
    /\ codec_out' = NoDecode
    /\ UNCHANGED <<map_vars, conc_vars>>

InitCodec == InitMaps({FreshShape}, {0}) /\ CodecIdle /\ ConcIdle

NextCodec ==
    \/ \E u \in U64Inputs : Decode(u)
    \/ \E h \in HandleWords : Encode(h)

SpecCodec == InitCodec /\ [][NextCodec]_vars

----------------------------------------------------------------------------
(* ConcurrentHandleMap.  Each call is a sequence of steps of its thread:    *)
(* taking a lock is a step of its own, and a thread waits (its step is not  *)
(* enabled) while the lock is held against it.  A panic unwinds the thread: *)
(* it drops the guards the thread holds, poisons the lock whose exclusive   *)
(* guard it drops, and gives the call the result "panic".  (A build that    *)
(* aborts on panic stops the program there; its runs are prefixes of the    *)
(* runs here.)  Callbacks do not call into the same ConcurrentHandleMap.    *)

ConcMap == "C"

(* The callers' choices: how a callback ends *)
Outcomes == {"Ok", "Err", "panic"}

WithOps == {"get", "get_mut", "get_u64", "get_mut_u64"}

MutOps == {"get_mut", "get_mut_u64"}

(* A ConcurrentHandleMap whose slot 0 holds a value, and one whose slot 0   *)
(* is free and one insert away from the wrap of its version.                *)
ConcShapes ==
    { [prefill |-> 1, age |-> 0], [prefill |-> 0, age |-> VersionCycle] }

ConcurrentNew ==
    \E shape \in ConcShapes, seed \in Seeds, dbg \in BOOLEAN :
        LET id == next_handle_map_id(seed)
            new == new_with_capacity(MIN_CAPACITY, id)
        IN  /\ cmap = used_arena(new.map, shape.prefill, shape.age, Mutex(PrefillValue))
            /\ rwlock = Unlocked
            /\ threads = [t \in Threads |-> Idle]
            /\ calls = 0
            /\ tokens = used_tokens(ConcMap, id, shape.prefill, shape.age)
            /\ HANDLE_MAP_ID_COUNTER = seed + 1
            /\ debug_build = dbg
            /\ maps = [mn \in MapNames |-> NoMap]
            /\ fault = "none"
            /\ last = NoCall
            /\ inserts = 0

(* The handles and the u64 values the threads present: those insert         *)
(* returned, the first of them with one field changed, and u64 values that  *)
(* from_u64 refuses.                                                        *)
ConcHandleInputs ==
    { tokens[k].h : k \in DOMAIN tokens }
    \cup { perturbed(tokens[k].h, {f}, cmap) :
            k \in DOMAIN tokens \cap {1}, f \in {"map_id", "index", "version"} }

ConcU64Inputs ==
    { into_u64(tokens[k].h) : k \in DOMAIN tokens }
    \cup { as_u64(0), <<0, cmap.id, 0, 2>>, <<HANDLE_MAGIC, cmap.id, 0, 3>> }

(* What the steps of a ConcurrentHandleMap call leave alone *)
sequential_unchanged ==
    UNCHANGED <<maps, HANDLE_MAP_ID_COUNTER, debug_build, fault, last, inserts, codec_vars>>

(* The thread enters a call *)
enter(t, op, u, h, pc) ==
    /\ threads[t].pc = "idle"
    /\ calls < MaxCalls
    /\ threads' = [threads EXCEPT ![t] = [Idle EXCEPT !.pc = pc, !.op = op, !.u = u, !.h = h]]
    /\ calls' = calls + 1
    /\ UNCHANGED <<cmap, rwlock, tokens>>
    /\ sequential_unchanged

(* The call of thread t ends with result, holding no guard *)
returned(t, result) ==
    [threads EXCEPT ![t].pc = "returned", ![t].result = result]

(* ConcurrentHandleMap::insert, up to self.map.write() *)
Concurrent_insert(t) == enter(t, "insert", as_u64(0), NoHandle, "write")

(* ConcurrentHandleMap::delete, up to self.map.write() *)
Concurrent_delete(t, h) == enter(t, "delete", as_u64(0), h, "write")

(* ConcurrentHandleMap::get, up to self.map.read() *)
Concurrent_get(t, h) == enter(t, "get", as_u64(0), h, "read")

(* ConcurrentHandleMap::get_mut, up to self.map.read() *)
Concurrent_get_mut(t, h) == enter(t, "get_mut", as_u64(0), h, "read")

(* Handle::from_u64(u)? in get_u64 and get_mut_u64: InvalidHandle is        *)
(* returned before any lock is taken.                                       *)
enter_u64(t, op, u) ==
    LET decoded == from_u64(u)
    IN  IF decoded.result = "Ok"
        THEN enter(t, op, u, decoded.handle, "read")
        ELSE /\ threads[t].pc = "idle"
             /\ calls < MaxCalls
             /\ threads' = [threads EXCEPT ![t] =
                    [Idle EXCEPT !.pc = "returned", !.op = op, !.u = u,
                                 !.result = decoded.result]]
             /\ calls' = calls + 1
             /\ UNCHANGED <<cmap, rwlock, tokens>>
             /\ sequential_unchanged

(* ConcurrentHandleMap::get_u64 *)
Concurrent_get_u64(t, u) == enter_u64(t, "get_u64", u)

(* ConcurrentHandleMap::get_mut_u64 *)
Concurrent_get_mut_u64(t, u) == enter_u64(t, "get_mut_u64", u)

(* A write() that waits for other writers only, not for readers *)
AcquireWrite_ignoring_readers(t) ==
    /\ threads[t].pc = "write"
    /\ rwlock.writer = {}
    /\ IF rwlock.poisoned
       THEN /\ threads' = returned(t, "panic")
            /\ UNCHANGED rwlock
       ELSE /\ threads' = [threads EXCEPT ![t].pc = "writing"]
            /\ rwlock' = [rwlock EXCEPT !.writer = {t}]
    /\ UNCHANGED <<cmap, calls, tokens>>
    /\ sequential_unchanged

(* self.map.write().unwrap(): waits until nobody holds the RwLock; panics,  *)
(* dropping the guard, when the RwLock is poisoned.                         *)
AcquireWrite(t) ==
    /\ threads[t].pc = "write"
    /\ rwlock.readers = {}
    /\ rwlock.writer = {}
    /\ IF rwlock.poisoned
       THEN /\ threads' = returned(t, "panic")
            /\ UNCHANGED rwlock
       ELSE /\ threads' = [threads EXCEPT ![t].pc = "writing"]
            /\ rwlock' = [rwlock EXCEPT !.writer = {t}]
    /\ UNCHANGED <<cmap, calls, tokens>>
    /\ sequential_unchanged

(* map.insert(Mutex::new(v)) under the write guard, and the drop of the     *)
(* guard; the value v of the call is chosen here, where it is first used.   *)
WriteInsert(t, v) ==
    /\ threads[t].pc = "writing"
    /\ threads[t].op = "insert"
    /\ LET r == insert(cmap, Mutex(v), debug_build)
       IN  /\ cmap' = r.map
           /\ rwlock' = [rwlock EXCEPT !.writer = {},
                                       !.poisoned = @ \/ r.fault # "none"]
           /\ threads' = IF r.fault = "none"
                         THEN [returned(t, "Ok") EXCEPT ![t].h = r.handle]
                         ELSE returned(t, "panic")
           /\ tokens' = IF r.fault = "none"
                        THEN tokens_after_insert(ConcMap, r.handle, v)
                        ELSE tokens
    /\ UNCHANGED calls
    /\ sequential_unchanged

(* map.delete(h) under the write guard, and the drop of the guard *)
WriteDelete(t) ==
    /\ threads[t].pc = "writing"
    /\ threads[t].op = "delete"
    /\ LET r == delete(cmap, threads[t].h, debug_build)
       IN  /\ cmap' = r.map
           /\ rwlock' = [rwlock EXCEPT !.writer = {},
                                       !.poisoned = @ \/ r.fault # "none"]
           /\ threads' = returned(t, r.result)
           /\ tokens' = IF r.result = "Ok"
                        THEN tokens_after_delete(ConcMap, threads[t].h)
                        ELSE tokens
    /\ UNCHANGED calls
    /\ sequential_unchanged

(* self.map.read().unwrap(): waits while a writer holds the RwLock; panics, *)
(* dropping the guard, when the RwLock is poisoned.                         *)
AcquireRead(t) ==
    /\ threads[t].pc = "read"
    /\ rwlock.writer = {}
    /\ IF rwlock.poisoned
       THEN /\ threads' = returned(t, "panic")
            /\ UNCHANGED rwlock
       ELSE /\ threads' = [threads EXCEPT ![t].pc = "lookup"]
            /\ rwlock' = [rwlock EXCEPT !.readers = @ \cup {t}]
    /\ UNCHANGED <<cmap, calls, tokens>>
    /\ sequential_unchanged

(* Lookup that keeps the read guard when it returns the error *)
Lookup_keeping_guard(t) ==
    /\ threads[t].pc = "lookup"
    /\ LET r == get(cmap, threads[t].h)
       IN  IF r.result = "Ok"
           THEN threads' = [threads EXCEPT ![t].pc = "lock"]
           ELSE threads' = returned(t, r.result)
    /\ UNCHANGED <<cmap, rwlock, calls, tokens>>
    /\ sequential_unchanged

(* let mtx = map.get(h)?: on an error the read guard is dropped and the     *)
(* error returned.                                                          *)
Lookup(t) ==
    /\ threads[t].pc = "lookup"
    /\ LET r == get(cmap, threads[t].h)
       IN  IF r.result = "Ok"
           THEN /\ threads' = [threads EXCEPT ![t].pc = "lock"]
                /\ UNCHANGED rwlock
           ELSE /\ threads' = returned(t, r.result)
                /\ rwlock' = [rwlock EXCEPT !.readers = @ \ {t}]
    /\ UNCHANGED <<cmap, calls, tokens>>
    /\ sequential_unchanged

(* One lock for all the values: taken only while no value is locked *)
can_lock_no_value_locked(mtx) ==
    /\ mtx.held_by = {}
    /\ \A i \in 1..capacity(cmap) :
        is_occupied(cmap.entries[i].state) => cmap.entries[i].state.v.held_by = {}

(* A Mutex that lets a second thread in *)
can_lock_always(mtx) == TRUE

(* Mutex::lock returns once nobody holds the Mutex *)
can_lock(mtx) == mtx.held_by = {}

(* A lock() that takes the value out of a poisoned Mutex instead of         *)
(* panicking                                                                *)
LockMutex_into_inner(t) ==
    /\ threads[t].pc = "lock"
    /\ LET slot == threads[t].h.index + 1
           mtx == cmap.entries[slot].state.v
       IN  /\ can_lock(mtx)
           /\ threads' = [threads EXCEPT ![t].pc = "callback",
                                         ![t].called = TRUE]
           /\ cmap' = [cmap EXCEPT
                        !.entries[slot].state.v.held_by = @ \cup {t}]
           /\ UNCHANGED rwlock
    /\ UNCHANGED <<calls, tokens>>
    /\ sequential_unchanged

(* mtx.lock().unwrap(): waits until nobody holds the Mutex; panics,         *)
(* dropping both guards, when the Mutex is poisoned; else the callback is   *)
(* entered.                                                                 *)
LockMutex(t) ==
    /\ threads[t].pc = "lock"
    /\ LET slot == threads[t].h.index + 1
           mtx == cmap.entries[slot].state.v
       IN  /\ can_lock(mtx)
           /\ IF mtx.poisoned
              THEN /\ threads' = returned(t, "panic")
                   /\ rwlock' = [rwlock EXCEPT !.readers = @ \ {t}]
                   /\ UNCHANGED cmap
              ELSE /\ threads' = [threads EXCEPT ![t].pc = "callback",
                                                 ![t].called = TRUE]
                   /\ cmap' = [cmap EXCEPT
                                !.entries[slot].state.v.held_by = @ \cup {t}]
                   /\ UNCHANGED rwlock
    /\ UNCHANGED <<calls, tokens>>
    /\ sequential_unchanged

(* The end of a callback at which the Mutex guard is not dropped *)
Callback_keeping_mutex(t, outcome, v) ==
    /\ threads[t].pc = "callback"
    /\ LET slot == threads[t].h.index + 1
           mtx == cmap.entries[slot].state.v
           written == IF threads[t].op \in MutOps THEN v ELSE mtx.data
       IN  /\ cmap' = [cmap EXCEPT !.entries[slot].state.v =
                        [data |-> written,
                         held_by |-> mtx.held_by,
                         poisoned |-> mtx.poisoned \/ outcome = "panic"]]
           /\ tokens' = tokens_after_get_mut(ConcMap, threads[t].h, written)
    /\ rwlock' = [rwlock EXCEPT !.readers = @ \ {t}]
    /\ threads' = returned(t, outcome)
    /\ UNCHANGED calls
    /\ sequential_unchanged

(* callback(&*hm) or callback(&mut *hm) ends, and the Mutex guard and then  *)
(* the read guard are dropped.  A get_mut callback leaves v in the value;   *)
(* one that panics poisons the Mutex.                                       *)
Callback(t, outcome, v) ==
    /\ threads[t].pc = "callback"
    /\ LET slot == threads[t].h.index + 1
           mtx == cmap.entries[slot].state.v
           written == IF threads[t].op \in MutOps THEN v ELSE mtx.data
       IN  /\ cmap' = [cmap EXCEPT !.entries[slot].state.v =
                        [data |-> written,
                         held_by |-> mtx.held_by \ {t},
                         poisoned |-> mtx.poisoned \/ outcome = "panic"]]
           /\ tokens' = tokens_after_get_mut(ConcMap, threads[t].h, written)
    /\ rwlock' = [rwlock EXCEPT !.readers = @ \ {t}]
    /\ threads' = returned(t, outcome)
    /\ UNCHANGED calls
    /\ sequential_unchanged

(* The caller is done with the result of its call *)
ConcReturn(t) ==
    /\ threads[t].pc = "returned"
    /\ threads' = [threads EXCEPT ![t] = Idle]
    /\ UNCHANGED <<cmap, rwlock, calls, tokens>>
    /\ sequential_unchanged

NextConcurrent ==
    \E t \in Threads :
        \/ Concurrent_insert(t)
        \/ \E h \in ConcHandleInputs : Concurrent_delete(t, h)
        \/ \E h \in ConcHandleInputs : Concurrent_get(t, h)
        \/ \E h \in ConcHandleInputs : Concurrent_get_mut(t, h)
        \/ \E u \in ConcU64Inputs : Concurrent_get_u64(t, u)
        \/ \E u \in ConcU64Inputs : Concurrent_get_mut_u64(t, u)
        \/ AcquireWrite(t)
        \/ \E v \in Values : WriteInsert(t, v)
        \/ WriteDelete(t)
        \/ AcquireRead(t)
        \/ Lookup(t)
        \/ LockMutex(t)
        \/ \E outcome \in Outcomes, v \in Values : Callback(t, outcome, v)
        \/ ConcReturn(t)

InitConcurrent == ConcurrentNew /\ CodecIdle

SpecConcurrent == InitConcurrent /\ [][NextConcurrent]_vars

(* The steps thread t takes inside a call outside the critical section of  *)
(* insert and delete: taking a lock, the lookup, the end of the callback    *)
step_outside_write(t) ==
    \/ AcquireWrite(t)
    \/ AcquireRead(t)
    \/ Lookup(t)
    \/ LockMutex(t)
    \/ \E outcome \in Outcomes, v \in Values : Callback(t, outcome, v)

(* The scheduling of the threads: a thread that can take its next step      *)
(* inside a call takes it.  A lock that stays free is acquired by a thread  *)
(* waiting for it, a thread holding a guard runs on, and a callback comes   *)
(* to an end.  map.insert and map.delete under the write guard are always   *)
(* able to run, so for them this says that no thread stays under the write  *)
(* guard for ever.  Nothing makes a thread start a call or a caller drop a  *)
(* result.                                                                  *)
ThreadsRunOn ==
    \A t \in Threads :
        /\ WF_vars(step_outside_write(t))
        /\ []<>(threads[t].pc # "writing")

SpecConcurrentFair == SpecConcurrent /\ ThreadsRunOn

----------------------------------------------------------------------------
(* What the three validating calls return for handle h on map m *)

get_result(m, h) == get(m, h).result

get_mut_result(m, h) == get_mut(m, h, PrefillValue).result

delete_result(m, h) == delete(m, h, debug_build).result

all_return(m, h, result) ==
    /\ get_result(m, h) = result
    /\ get_mut_result(m, h) = result
    /\ delete_result(m, h) = result

----------------------------------------------------------------------------
(* C1 (as stated): a handle returned by insert validates (get and get_mut   *)
(* succeed) at every point up to its successful delete, and at every point  *)
(* after it get, get_mut and delete on it return StaleVersion, however many *)
(* later inserts have reused its slot.                                      *)
C1_StaleForEver ==
    \A k \in DOMAIN tokens :
        IF tokens[k].live
        THEN /\ get_result(maps[tokens[k].map], tokens[k].h) = "Ok"
             /\ get_mut_result(maps[tokens[k].map], tokens[k].h) = "Ok"
        ELSE all_return(maps[tokens[k].map], tokens[k].h, "StaleVersion")

(* C1 (amended): a handle returned by insert validates at every point up to *)
(* its successful delete, and after it get, get_mut and delete on it return *)
(* StaleVersion as long as its slot has been reused by fewer than           *)
(* VersionCycle = 32767 later inserts.                                      *)
C1_StaleUntilVersionCycle ==
    \A k \in DOMAIN tokens :
        IF tokens[k].live
        THEN /\ get_result(maps[tokens[k].map], tokens[k].h) = "Ok"
             /\ get_mut_result(maps[tokens[k].map], tokens[k].h) = "Ok"
        ELSE tokens[k].reuses < VersionCycle
                => all_return(maps[tokens[k].map], tokens[k].h, "StaleVersion")

(* A deleted handle whose slot a later insert has reused is presented to    *)
(* get, which answers StaleVersion.                                         *)
C1_Witness ==
    \E k \in DOMAIN tokens :
        /\ ~tokens[k].live
        /\ tokens[k].reuses = 1
        /\ is_occupied(EntryAt(maps[tokens[k].map], tokens[k].h.index).state)
        /\ last.op = "get"
        /\ last.map = tokens[k].map
        /\ last.h = tokens[k].h
        /\ last.result = "StaleVersion"

----------------------------------------------------------------------------
(* C2: for every live handle, get returns the value passed to the insert    *)
(* that returned it, as last changed through get_mut on that handle,        *)
(* whatever other inserts, deletes of other handles and growths happened.   *)
C2_LiveValueKept ==
    \A k \in DOMAIN tokens :
        tokens[k].live =>
            get(maps[tokens[k].map], tokens[k].h)
                = [fault |-> "none", result |-> "Ok", item |-> tokens[k].val]

(* get returns the value get_mut wrote for the first handle, after the      *)
(* arena grew for a second handle that has since been deleted.              *)
C2_Witness ==
    /\ Len(tokens) = 2
    /\ tokens[1].live
    /\ ~tokens[2].live
    /\ capacity(maps[tokens[1].map]) > MIN_CAPACITY
    /\ last.op = "get"
    /\ last.h = tokens[1].h
    /\ last.result = "Ok"
    /\ last.item = tokens[1].val
    /\ last.item # PrefillValue

----------------------------------------------------------------------------
(* C3: in every interleaving of threads calling ConcurrentHandleMap::get    *)
(* and get_mut (typed or u64) on the same handle, at most one thread is     *)
(* inside its callback for that handle at any time, whether the calls are   *)
(* get, get_mut or a mix.                                                   *)
C3_OneCallbackPerHandle ==
    \A t1, t2 \in Threads :
        (/\ threads[t1].pc = "callback"
         /\ threads[t2].pc = "callback"
         /\ threads[t1].h = threads[t2].h) => t1 = t2

(* A get is inside its callback while a get_mut on the same handle has      *)
(* passed the lookup and waits for the value's Mutex.                       *)
C3_Witness ==
    \E t1, t2 \in Threads :
        /\ threads[t1].pc = "callback"
        /\ threads[t1].op = "get"
        /\ threads[t2].pc = "lock"
        /\ threads[t2].op = "get_mut"
        /\ threads[t1].h = threads[t2].h
        /\ ~ENABLED LockMutex(t2)

----------------------------------------------------------------------------
(* What a map answers to the handles of the other map, whatever their       *)
(* index and version.                                                       *)
rejects_foreign_handles ==
    \A k \in DOMAIN tokens : \A mn \in MapNames \ {tokens[k].map} :
        \A p \in SUBSET {"index", "version"} :
            all_return(maps[mn], perturbed(tokens[k].h, p, maps[mn]), "WrongMap")

(* C4 (as stated): for two independently constructed arenas, get, get_mut   *)
(* and delete on one with any handle returned by the other's insert return  *)
(* WrongMap, in both directions, whatever the handle's index and version.   *)
C4_ForeignHandleRejected == rejects_foreign_handles

(* C4 (amended): the same, for two arenas whose instance ids differ, which  *)
(* they do unless the HandleMaps constructed from the first up to the       *)
(* second number a multiple of 65536.                                       *)
C4_ForeignHandleRejectedIfIdsDiffer ==
    maps["A"].id # maps["B"].id => rejects_foreign_handles

(* Both arenas hold a value, and get on B with A's live handle has just     *)
(* returned WrongMap.                                                       *)
C4_Witness ==
    /\ \E k \in DOMAIN tokens : tokens[k].map = "B" /\ tokens[k].live
    /\ \E k \in DOMAIN tokens :
        /\ tokens[k].map = "A"
        /\ tokens[k].live
        /\ last.op = "get"
        /\ last.map = "B"
        /\ last.h = tokens[k].h
        /\ last.result = "WrongMap"

----------------------------------------------------------------------------
(* The first failing check of the order map id, index, version *)
first_failing_check(m, h) ==
    IF h.map_id # m.id THEN "WrongMap"
    ELSE IF h.index >= capacity(m) THEN "IndexPastEnd"
    ELSE IF EntryAt(m, h.index).version # h.version THEN "StaleVersion"
    ELSE "Ok"

(* C5: get, get_mut and delete report the first failing check of the order  *)
(* map id (WrongMap), index (IndexPastEnd when index >= capacity, never a   *)
(* fault), version (StaleVersion), and succeed only when all three pass.    *)
C5_FirstFailingCheck ==
    \A h \in HandleInputs("A", Perturbations) :
        all_return(maps["A"], h, first_failing_check(maps["A"], h))

(* delete has returned WrongMap for a handle whose index is also past the   *)
(* end and whose version is not one the arena issued.                       *)
C5_Witness ==
    /\ last.op = "delete"
    /\ last.result = "WrongMap"
    /\ last.h.index >= capacity(maps[last.map])
    /\ \E k \in DOMAIN tokens : last.h.version = tokens[k].h.version + 2

----------------------------------------------------------------------------
(* C6: decode(encode(h)) = h for every handle insert returns.               *)
C6_RoundTrip ==
    /\ \A k \in DOMAIN tokens :
        from_u64(into_u64(tokens[k].h)) = [result |-> "Ok", handle |-> tokens[k].h]
    /\ (last.op = "insert" /\ last.result = "Ok")
        => from_u64(into_u64(last.h)) = [result |-> "Ok", handle |-> last.h]

(* insert has returned the handle of a slot that growth created, and the    *)
(* handle survives the round trip.                                          *)
C6_Witness ==
    /\ last.op = "insert"
    /\ last.result = "Ok"
    /\ last.h.index >= MIN_CAPACITY
    /\ from_u64(into_u64(last.h)).handle = last.h

----------------------------------------------------------------------------
(* C7: from_u64 returns InvalidHandle for 0, for every value whose top 16   *)
(* bits are not the magic constant and for every value whose lowest bit is  *)
(* 1; for every other value it returns the handle with instance id = bits   *)
(* 32..47, index = bits 16..31 and version = bits 0..15.                    *)
C7_DecodeRejects ==
    codec_out # NoDecode =>
        IF \/ codec_in = <<0, 0, 0, 0>>
           \/ codec_in[1] # HANDLE_MAGIC
           \/ codec_in[4] % 2 = 1
        THEN codec_out.result = "InvalidHandle"
        ELSE codec_out = [result |-> "Ok",
                          handle |-> Handle(codec_in[2], codec_in[4], codec_in[3])]

(* The value 0x4153_1234_0012_0002 of test_invalid_handle has been decoded  *)
C7_Witness ==
    /\ codec_in = <<HANDLE_MAGIC, 4660, 18, 2>>
    /\ codec_out = [result |-> "Ok", handle |-> Handle(4660, 2, 18)]

----------------------------------------------------------------------------
HandleErrors == {"InvalidHandle", "WrongMap", "IndexPastEnd", "StaleVersion"}

(* Thread t holds the RwLock, or the Mutex of some value *)
holds_lock(t) ==
    \/ t \in rwlock.readers
    \/ t \in rwlock.writer
    \/ \E i \in 1..capacity(cmap) :
        /\ is_occupied(cmap.entries[i].state)
        /\ t \in cmap.entries[i].state.v.held_by

(* A call that returned a handle error did not invoke its callback, and a   *)
(* call that has returned holds no lock.                                    *)
error_without_callback ==
    \A t \in Threads :
        /\ (threads[t].op \in WithOps /\ threads[t].result \in HandleErrors)
            => ~threads[t].called
        /\ threads[t].pc \in {"idle", "returned"} => ~holds_lock(t)

(* A u64 entry point given a value that from_u64 refuses returns            *)
(* InvalidHandle at once.                                                   *)
undecodable_returns_error ==
    \A t \in Threads :
        (/\ threads[t].pc = "idle"
         /\ threads'[t].op \in {"get_u64", "get_mut_u64"}
         /\ from_u64(threads'[t].u).result # "Ok")
        => /\ threads'[t].pc = "returned"
           /\ threads'[t].result = "InvalidHandle"
           /\ ~threads'[t].called

(* The step that ends thread t's wait for the read guard or its lookup,     *)
(* when its handle fails a check of the map as it is *)
ends_with_failing_handle(t) ==
    /\ threads[t].op \in WithOps
    /\ threads[t].pc \in {"read", "lookup"}
    /\ threads'[t].pc \notin {"read", "lookup"}
    /\ first_failing_check(cmap, threads[t].h) # "Ok"

returns_failing_check(t) ==
    /\ threads'[t].pc = "returned"
    /\ threads'[t].result = first_failing_check(cmap, threads[t].h)
    /\ ~threads'[t].called

(* C8 (as stated): get/get_mut, typed or u64, given a handle that fails     *)
(* decoding or validation returns that error (InvalidHandle, WrongMap,      *)
(* IndexPastEnd or StaleVersion), never invokes the callback, and holds     *)
(* neither the RwLock nor any Mutex once it has returned.                   *)
C8_FailingHandleReturnsError ==
    /\ []error_without_callback
    /\ [][undecodable_returns_error]_vars
    /\ [][\A t \in Threads : ends_with_failing_handle(t) => returns_failing_check(t)]_vars

(* C8 (amended): get/get_mut, typed or u64, given a value that fails        *)
(* decoding returns InvalidHandle; given a handle that fails validation it  *)
(* returns that error if the RwLock is not poisoned (no insert has          *)
(* panicked holding it), and panics at the RwLock if it is; either way it   *)
(* never invokes the callback and holds neither the RwLock nor any Mutex    *)
(* once it has returned or panicked.                                        *)
C8_FailingHandleReturnsErrorUnlessPoisoned ==
    /\ []error_without_callback
    /\ [][undecodable_returns_error]_vars
    /\ [][\A t \in Threads : ends_with_failing_handle(t) =>
            IF rwlock.poisoned
            THEN /\ threads'[t].pc = "returned"
                 /\ threads'[t].result = "panic"
                 /\ ~threads'[t].called
            ELSE returns_failing_check(t)]_vars

(* get_mut_u64, given the encoding of a deleted handle, has returned        *)
(* StaleVersion without invoking its callback, and holds no lock.           *)
C8_Witness ==
    \E t \in Threads :
        /\ threads[t].pc = "returned"
        /\ threads[t].op = "get_mut_u64"
        /\ threads[t].result = "StaleVersion"
        /\ ~threads[t].called
        /\ ~holds_lock(t)
        /\ \E k \in DOMAIN tokens : ~tokens[k].live /\ tokens[k].h = threads[t].h

----------------------------------------------------------------------------
(* C9: in every state of an arena the occupied count is strictly less than  *)
(* the capacity.                                                            *)
C9_OccupiedBelowCapacity ==
    \A mn \in MapNames :
        maps[mn] # NoMap => len(maps[mn]) < capacity(maps[mn])

(* An arena of the maximum capacity after the insert that fills it up to    *)
(* the terminator.                                                          *)
C9_Witness ==
    /\ last.op = "insert"
    /\ last.result = "Ok"
    /\ capacity(maps["A"]) = MAX_CAPACITY
    /\ len(maps["A"]) = MAX_CAPACITY - 1

----------------------------------------------------------------------------
(* C10: the capacity never exceeds 32767 and never decreases.               *)
C10_CapacityCappedAndMonotone ==
    /\ [](\A mn \in MapNames : capacity(maps[mn]) <= MAX_CAPACITY)
    /\ [][\A mn \in MapNames : capacity(maps'[mn]) >= capacity(maps[mn])]_vars

(* An insert has grown an arena constructed with 32765 slots: the doubled   *)
(* capacity was cut back, and the terminator is still the slot that was     *)
(* last at construction.                                                    *)
C10_Witness ==
    /\ last.op = "insert"
    /\ last.result = "Ok"
    /\ capacity(maps["A"]) = MAX_CAPACITY - 1
    /\ is_end_of_list(EntryAt(maps["A"], MAX_CAPACITY - 3).state)

----------------------------------------------------------------------------
(* C11: two ConcurrentHandleMap::get / get_mut calls on different live      *)
(* handles can be inside their callbacks at the same time: a call that has  *)
(* looked its value up waits for the Mutex only while another thread is in  *)
(* its callback on the same slot, and a call waits for the read guard only  *)
(* while a writer holds the RwLock.                                         *)
C11_OtherValuesDoNotBlock ==
    \A t \in Threads :
        /\ (threads[t].pc = "lock" /\ ~ENABLED LockMutex(t))
            => \E t1 \in Threads \ {t} :
                /\ threads[t1].pc = "callback"
                /\ threads[t1].h.index = threads[t].h.index
        /\ (threads[t].pc = "read" /\ ~ENABLED AcquireRead(t))
            => rwlock.writer # {}

(* Two threads are inside their callbacks, on two different live handles    *)
C11_Witness ==
    \E t1, t2 \in Threads :
        /\ threads[t1].pc = "callback"
        /\ threads[t2].pc = "callback"
        /\ threads[t1].h # threads[t2].h
        /\ \E k1, k2 \in DOMAIN tokens :
            /\ tokens[k1].live /\ tokens[k1].h = threads[t1].h
            /\ tokens[k2].live /\ tokens[k2].h = threads[t2].h
        /\ rwlock.readers = {t1, t2}

----------------------------------------------------------------------------
(* C12: for every handle, into_u64 yields a value whose most significant    *)
(* bit is 0: the top 16-bit word of the result is below 2^15.               *)
C12_EncodedIsNonNegative ==
    encode_out # NoEncode =>
        /\ Len(encode_out) = 4
        /\ \A i \in 1..4 : encode_out[i] \in 0..U16_MAX
        /\ encode_out[1] < (U16_MOD \div 2)

(* The handle with every field at its maximum has been encoded              *)
C12_Witness ==
    /\ encode_in = Handle(U16_MAX, U16_MAX, U16_MAX)
    /\ encode_out = <<HANDLE_MAGIC, U16_MAX, U16_MAX, U16_MAX>>

----------------------------------------------------------------------------
(* The slots met when following the free list of m from slot i, up to and   *)
(* including the first slot that is not InFreeList, in at most fuel steps   *)
RECURSIVE free_list_order(_, _, _)
free_list_order(m, i, fuel) ==
    IF fuel = 0 THEN <<>>
    ELSE IF EntryAt(m, i).state.tag = "InFreeList"
    THEN <<i>> \o free_list_order(m, EntryAt(m, i).state.next, fuel - 1)
    ELSE <<i>>

slots_where(m, P(_)) == { i \in 0..(capacity(m) - 1) : P(EntryAt(m, i).state) }

is_free(s) == ~is_occupied(s)

free_list_is_exact(m) ==
    LET order == free_list_order(m, m.first_free, capacity(m) + 1)
    IN  /\ ~is_occupied(EntryAt(m, m.first_free).state)
        /\ Len(order) = Cardinality(slots_where(m, is_free))
        /\ { order[k] : k \in DOMAIN order } = slots_where(m, is_free)
        /\ is_end_of_list(EntryAt(m, order[Len(order)]).state)
        /\ Cardinality(slots_where(m, is_end_of_list)) = 1

(* C13: in every reachable arena state, following the free list from        *)
(* first_free visits every slot that is not Active exactly once and no      *)
(* Active slot, and ends at an EndOfFreeList slot; exactly one slot of the  *)
(* arena is EndOfFreeList, and first_free is never an Active slot.          *)
C13_FreeListIsExact ==
    \A mn \in MapNames : maps[mn] # NoMap => free_list_is_exact(maps[mn])

(* After a growth and the delete of an older slot, the free list runs from  *)
(* the deleted slot through the slots growth added to the terminator, which *)
(* is still the last slot of the arena as constructed.                      *)
C13_Witness ==
    /\ last.op = "delete"
    /\ last.result = "Ok"
    /\ capacity(maps["A"]) > MIN_CAPACITY
    /\ LET order == free_list_order(maps["A"], maps["A"].first_free,
                                    capacity(maps["A"]) + 1)
       IN  /\ Len(order) >= MIN_CAPACITY
           /\ order[1] = last.h.index
           /\ order[2] >= MIN_CAPACITY
           /\ order[Len(order)] = MIN_CAPACITY - 1

----------------------------------------------------------------------------
version_parity(m) ==
    \A i \in 0..(capacity(m) - 1) :
        /\ EntryAt(m, i).version # 0
        /\ (EntryAt(m, i).version % 2 = 0) <=> is_occupied(EntryAt(m, i).state)

(* The parity part alone: each slot's version is even exactly when the      *)
(* slot is Active, and is never zero.                                       *)
VersionParity ==
    \A mn \in MapNames : maps[mn] # NoMap => version_parity(maps[mn])

(* An insert call on arena mn has just been made, and it popped a slot      *)
(* whose version was at the top of the 16-bit range.                        *)
insert_at_wrap(mn) ==
    /\ last = NoCall
    /\ last'.op = "insert"
    /\ last'.map = mn
    /\ len(maps[mn]) + 1 < capacity(maps[mn])
    /\ EntryAt(maps[mn], maps[mn].first_free).version = U16_MAX

(* C14: each slot's version is even if and only if the slot is Active and   *)
(* no version is zero, in every arena state, and this holds across the      *)
(* 16-bit wrap: an insert whose increment would produce zero advances the   *)
(* version by two more, to 2, and makes the slot Active.                    *)
C14_ParityAcrossWrap ==
    [][\A mn \in MapNames :
         /\ maps'[mn] # NoMap => version_parity(maps'[mn])
         /\ insert_at_wrap(mn) =>
              /\ last'.result = "Ok"
              /\ EntryAt(maps'[mn], maps[mn].first_free).version = 2
              /\ is_occupied(EntryAt(maps'[mn], maps[mn].first_free).state)]_vars

(* The insert at the wrap in a build that checks arithmetic overflow: the   *)
(* increment panics and the slot stays free at version 65535.               *)
C14_Witness ==
    /\ debug_build
    /\ last.op = "insert"
    /\ last.result = "panic"
    /\ fault = "attempt to add with overflow"
    /\ EntryAt(maps["A"], maps["A"].first_free).version = U16_MAX
    /\ ~is_occupied(EntryAt(maps["A"], maps["A"].first_free).state)

----------------------------------------------------------------------------
(* An insert call on arena mn has just been made *)
insert_called(mn) ==
    /\ last = NoCall
    /\ last'.op = "insert"
    /\ last'.map = mn

(* C15: an insert grows the arena exactly when occupied + 1 = capacity; the *)
(* capacity after growth is the old capacity doubled repeatedly until it    *)
(* exceeds occupied + 1, or 32767 if that doubling would pass the cap; an   *)
(* insert with occupied + 1 < capacity leaves the capacity unchanged.       *)
C15_GrowthDoubles ==
    [][\A mn \in MapNames :
         insert_called(mn) =>
            IF len(maps[mn]) + 1 = capacity(maps[mn])
            THEN capacity(maps'[mn]) =
                    clamp_capacity(double_until_above(capacity(maps[mn]),
                                                      len(maps[mn]) + 1))
            ELSE capacity(maps'[mn]) = capacity(maps[mn])]_vars

(* What the code does instead: growth stops one slot short of the doubled   *)
(* and clamped figure, and an insert that leaves a free slot does not grow. *)
GrowthStopsOneShort ==
    [][\A mn \in MapNames :
         insert_called(mn) =>
            IF len(maps[mn]) + 1 = capacity(maps[mn])
            THEN capacity(maps'[mn]) \in
                    { capacity(maps[mn]),
                      clamp_capacity(double_until_above(capacity(maps[mn]),
                                                        len(maps[mn]) + 1)) - 1 }
            ELSE capacity(maps'[mn]) = capacity(maps[mn])]_vars

(* The fourth insert into an arena of the minimum capacity has grown it to  *)
(* one less than twice that capacity.                                       *)
C15_Witness ==
    /\ last.op = "insert"
    /\ last.result = "Ok"
    /\ len(maps["A"]) = MIN_CAPACITY
    /\ capacity(maps["A"]) = 2 * MIN_CAPACITY - 1

----------------------------------------------------------------------------
(* The deleted handle of token k is accepted by its arena again *)
accepted_again(k) ==
    /\ ~tokens[k].live
    /\ get_result(maps[tokens[k].map], tokens[k].h) = "Ok"

----------------------------------------------------------------------------
(* Handle h was deleted from the ConcurrentHandleMap, and its slot has been *)
(* reused at most most_reuses times since                                   *)
deleted_handle(h, most_reuses) ==
    \E k \in DOMAIN tokens :
        /\ tokens[k].map = ConcMap
        /\ tokens[k].h = h
        /\ ~tokens[k].live
        /\ tokens[k].reuses <= most_reuses

(* The callback of thread t runs on the value inserted under its handle *)
callback_on_own_value(t) ==
    LET h == threads[t].h
    IN  /\ check_handle(cmap, h) = "Ok"
        /\ is_occupied(EntryAt(cmap, h.index).state)
        /\ EntryAt(cmap, h.index).state.v.held_by = {t}
        /\ \A k \in DOMAIN tokens :
            (tokens[k].map = ConcMap /\ tokens[k].h = h /\ tokens[k].live)
                => tokens[k].val = EntryAt(cmap, h.index).state.v.data

(* The step that ends thread t's with/with_mut call on a deleted handle *)
ends_call_on_deleted(t, most_reuses) ==
    /\ threads[t].op \in WithOps
    /\ threads[t].pc \notin {"idle", "returned"}
    /\ threads'[t].pc = "returned"
    /\ deleted_handle(threads[t].h, most_reuses)

(* C17 (as stated): in any interleaving of insert, delete, with and         *)
(* with_mut on one ConcurrentHandleMap a callback is only invoked on the    *)
(* value inserted under exactly the handle presented: once a delete of the  *)
(* handle has completed, every later with/with_mut with it returns          *)
(* StaleVersion without running the callback, however often the slot has    *)
(* been reused.                                                             *)
C17_DeletedHandleIsStale ==
    /\ [](\A t \in Threads : threads[t].pc = "callback" =>
            /\ callback_on_own_value(t)
            /\ ~deleted_handle(threads[t].h, U16_MAX))
    /\ [][\A t \in Threads : ends_call_on_deleted(t, U16_MAX) =>
            /\ threads'[t].result = "StaleVersion"
            /\ ~threads'[t].called]_vars

(* C17 (amended): a callback is only invoked on the value inserted under    *)
(* exactly the handle presented: once a delete of the handle has completed  *)
(* and while its slot has been reused fewer than VersionCycle = 32767       *)
(* times since, every later with/with_mut with it runs no callback, and     *)
(* returns StaleVersion unless the RwLock is poisoned (an insert has        *)
(* panicked holding it), in which case it panics at the RwLock.             *)
C17_DeletedHandleIsStaleWithinCycle ==
    /\ [](\A t \in Threads : threads[t].pc = "callback" =>
            /\ callback_on_own_value(t)
            /\ ~deleted_handle(threads[t].h, VersionCycle - 1))
    /\ [][\A t \in Threads : ends_call_on_deleted(t, VersionCycle - 1) =>
            /\ threads'[t].result = IF rwlock.poisoned THEN "panic" ELSE "StaleVersion"
            /\ ~threads'[t].called]_vars

(* One thread's insert has reused the slot of a deleted handle, and         *)
(* another thread's with/with_mut on the deleted handle has returned        *)
(* StaleVersion without a callback.                                         *)
C17_Witness ==
    \E t \in Threads, t2 \in Threads :
        /\ t # t2
        /\ threads[t].pc = "returned"
        /\ threads[t].op \in WithOps
        /\ threads[t].result = "StaleVersion"
        /\ ~threads[t].called
        /\ \E k \in DOMAIN tokens :
            /\ tokens[k].h = threads[t].h
            /\ ~tokens[k].live
            /\ tokens[k].reuses = 1
        /\ threads[t2].pc = "returned"
        /\ threads[t2].op = "insert"
        /\ threads[t2].result = "Ok"
        /\ threads[t2].h.index = threads[t].h.index
        /\ is_occupied(EntryAt(cmap, threads[t].h.index).state)

----------------------------------------------------------------------------
(* The threads inside the critical section of insert or delete, and those   *)
(* between the handle lookup of with/with_mut and the return of its         *)
(* callback                                                                 *)
in_write_section == { t \in Threads : threads[t].pc = "writing" }

in_read_section == { t \in Threads : threads[t].pc \in {"lookup", "lock", "callback"} }

(* Thread t stays inside its callback over the step, and the value it       *)
(* borrows stays where and what it was while the slot sequence keeps its    *)
(* length                                                                   *)
borrow_undisturbed(t) ==
    (threads[t].pc = "callback" /\ threads'[t].pc = "callback") =>
        /\ capacity(cmap') = capacity(cmap)
        /\ is_occupied(EntryAt(cmap', threads[t].h.index).state)
        /\ EntryAt(cmap', threads[t].h.index) = EntryAt(cmap, threads[t].h.index)

(* C18: while a with/with_mut call is between its handle lookup and the     *)
(* return of its callback no insert or delete is inside its critical        *)
(* section, and at most one insert or delete is inside its critical         *)
(* section at a time; hence no value is removed and the slot sequence does  *)
(* not grow while a callback holds a reference to a value.                  *)
C18_WritersExcludeReaders ==
    /\ [](in_read_section # {} => in_write_section = {})
    /\ [](Cardinality(in_write_section) <= 1)
    /\ [](in_write_section = rwlock.writer)
    /\ [](in_read_section = rwlock.readers)
    /\ [][\A t \in Threads : borrow_undisturbed(t)]_vars

(* A thread is inside its callback, and another thread's insert or delete   *)
(* waits at write() for it.                                                 *)
C18_Witness ==
    \E t \in Threads, t2 \in Threads :
        /\ threads[t].pc = "callback"
        /\ threads[t2].pc = "write"
        /\ threads[t2].op \in {"insert", "delete"}
        /\ ~rwlock.poisoned
        /\ ~ENABLED AcquireWrite(t2)

----------------------------------------------------------------------------
(* The terminator is the slot the next insert would pop, and the capacity   *)
(* cannot grow: the doubled capacity is cut back to the cap, and the arena  *)
(* already has the slots growth would stop at                               *)
only_terminator_left(m) ==
    /\ m # NoMap
    /\ is_end_of_list(EntryAt(m, m.first_free).state)
    /\ double_until_above(capacity(m), len(m) + 1) > MAX_CAPACITY
    /\ capacity(m) >= MAX_CAPACITY - 1

terminator_stays(m, after) ==
    \A i \in 0..(capacity(m) - 1) :
        is_end_of_list(EntryAt(m, i).state) => is_end_of_list(EntryAt(after, i).state)

(* C19: insert never turns the EndOfFreeList slot into an Active slot: when *)
(* that slot is the only free one and the capacity cannot grow because of   *)
(* the 32767 cap, insert panics, leaving the arena as it was and returning  *)
(* no handle; and new_with_capacity with a request above 32767 panics.      *)
C19_TerminatorIsNeverHandedOut ==
    /\ [](\A request \in {MAX_CAPACITY + 1, U16_MAX, U16_MOD} :
            /\ new_with_capacity(request, 0).fault # "none"
            /\ new_with_capacity(request, 0).map = NoMap)
    /\ [](\A mn \in MapNames : (maps[mn] = NoMap) => fault # "none")
    /\ [][\A mn \in MapNames :
            /\ terminator_stays(maps[mn], maps'[mn])
            /\ (insert_called(mn) /\ only_terminator_left(maps[mn])) =>
                /\ last'.result = "panic"
                /\ last'.h = NoHandle
                /\ fault' # "none"
                /\ maps'[mn] = maps[mn]]_vars

(* An arena of 32767 slots holding 32766 values after an insert: the insert *)
(* has panicked, and the terminator is still the free list's only slot.     *)
C19_Witness ==
    /\ last.op = "insert"
    /\ last.result = "panic"
    /\ fault # "none"
    /\ capacity(maps["A"]) = MAX_CAPACITY
    /\ len(maps["A"]) = MAX_CAPACITY - 1
    /\ is_end_of_list(EntryAt(maps["A"], maps["A"].first_free).state)

----------------------------------------------------------------------------
(* The slots capacity(m), ..., capacity(g) - 1 that growth from m to g      *)
(* added, last added first                                                  *)
new_slots_in_front(m, g) ==
    [j \in 1..(capacity(g) - capacity(m)) |-> capacity(g) - j]

(* Growth from m to g changed no slot of m, and made every added slot free  *)
(* with version 1, in front of m's free list                                *)
growth_keeps_slots(m, g) ==
    /\ g.id = m.id
    /\ g.num_entries = m.num_entries
    /\ SubSeq(g.entries, 1, capacity(m)) = m.entries
    /\ \A i \in capacity(m)..(capacity(g) - 1) :
        /\ EntryAt(g, i).version = 1
        /\ EntryAt(g, i).state.tag = "InFreeList"
    /\ free_list_order(g, g.first_free, capacity(g) + 1) =
            new_slots_in_front(m, g) \o free_list_order(m, m.first_free, capacity(m) + 1)

(* The handles of arena mn that were live before the step are valid after   *)
(* it and reach the same values                                             *)
handles_stay_valid(mn) ==
    \A k \in DOMAIN tokens :
        (tokens[k].map = mn /\ tokens[k].live) =>
            /\ get(maps[mn], tokens[k].h).result = "Ok"
            /\ get(maps'[mn], tokens[k].h).result = "Ok"
            /\ get(maps'[mn], tokens[k].h).item = get(maps[mn], tokens[k].h).item

(* C20: growth changes no slot that existed before it: each keeps its       *)
(* version and state, so the EndOfFreeList slot stays where it was and the  *)
(* stored values and their handles stay valid; every new slot is created    *)
(* free with version 1 and placed in front of the previous first_free in    *)
(* free-list order.                                                         *)
C20_GrowthKeepsSlots ==
    [][\A mn \in MapNames :
         (insert_called(mn) /\ capacity(maps'[mn]) > capacity(maps[mn])) =>
            LET m == maps[mn]
                g == ensure_capacity(m, len(m) + 1, debug_build).map
            IN  /\ capacity(g) = capacity(maps'[mn])
                /\ growth_keeps_slots(m, g)
                /\ SubSeq(maps'[mn].entries, 1, capacity(m)) = m.entries
                /\ terminator_stays(m, g)
                /\ handles_stay_valid(mn)]_vars

(* The insert that grew the arena of the minimum capacity has popped the    *)
(* slot added last; the other new slots lead to the terminator, which is    *)
(* still the slot it was at construction, and the handle issued first still *)
(* reaches its value.                                                       *)
C20_Witness ==
    /\ last.op = "insert"
    /\ last.result = "Ok"
    /\ last.h.index = 2 * MIN_CAPACITY - 2
    /\ capacity(maps["A"]) = 2 * MIN_CAPACITY - 1
    /\ free_list_order(maps["A"], maps["A"].first_free, capacity(maps["A"]) + 1)
            = <<2 * MIN_CAPACITY - 3, MIN_CAPACITY, MIN_CAPACITY - 1>>
    /\ is_end_of_list(EntryAt(maps["A"], MIN_CAPACITY - 1).state)
    /\ tokens # <<>>
    /\ tokens[1].live
    /\ get(maps["A"], tokens[1].h).result = "Ok"

----------------------------------------------------------------------------
(* The Mutex in the slot of handle h is poisoned *)
value_poisoned(h) ==
    /\ h.index < capacity(cmap)
    /\ is_occupied(EntryAt(cmap, h.index).state)
    /\ EntryAt(cmap, h.index).state.v.poisoned

(* Thread t's call ends over the step *)
call_ends(t) ==
    /\ threads[t].pc \notin {"idle", "returned"}
    /\ threads'[t].pc = "returned"

(* A callback that panics: the panic is the outcome of the call, the value  *)
(* is left poisoned and unlocked, and the RwLock is as good as before       *)
callback_panic_poisons_value(t) ==
    (threads[t].pc = "callback" /\ call_ends(t) /\ threads'[t].result = "panic") =>
        /\ value_poisoned(threads[t].h)'
        /\ EntryAt(cmap', threads[t].h.index).state.v.held_by = {}
        /\ rwlock'.poisoned = rwlock.poisoned
        /\ t \notin rwlock'.readers

(* A with/with_mut that finds its value poisoned panics without a callback; *)
(* one that finds it sound enters its callback                              *)
poisoned_value_faults(t) ==
    (threads[t].pc = "lock" /\ threads'[t].pc # "lock") =>
        IF value_poisoned(threads[t].h)
        THEN /\ threads'[t].pc = "returned"
             /\ threads'[t].result = "panic"
             /\ ~threads'[t].called
             /\ t \notin rwlock'.readers
        ELSE threads'[t].pc = "callback"

(* The other calls are not disturbed: a call panics only in its own         *)
(* callback, at a poisoned value of its own handle, or for a panic raised   *)
(* inside insert or delete (by itself, or earlier and met as a poisoned     *)
(* RwLock); and delete of a live handle succeeds whatever its value's state *)
others_complete(t) ==
    /\ (call_ends(t) /\ threads'[t].result = "panic") =>
        \/ threads[t].pc = "callback"
        \/ threads[t].pc = "lock" /\ value_poisoned(threads[t].h)
        \/ threads[t].pc \in {"read", "write"} /\ rwlock.poisoned
        \/ threads[t].pc = "writing" /\ rwlock'.poisoned
    /\ (call_ends(t) /\ threads[t].pc = "writing" /\ threads[t].op = "delete"
            /\ \E k \in DOMAIN tokens : tokens[k].live /\ tokens[k].h = threads[t].h)
        => threads'[t].result = "Ok"

(* C21: a panic raised by a callback inside get/get_mut propagates to the   *)
(* caller and leaves that value's Mutex poisoned: every later get/get_mut   *)
(* on the same handle panics, while insert, delete (also of that handle)    *)
(* and get/get_mut on other handles of the map complete normally.           *)
C21_CallbackPanicPoisonsOneValue ==
    /\ [](\A t \in Threads : threads[t].pc = "callback" => ~value_poisoned(threads[t].h))
    /\ [](\A i \in 0..(capacity(cmap) - 1) :
            (is_occupied(EntryAt(cmap, i).state) /\ EntryAt(cmap, i).state.v.poisoned)
                => ~rwlock.poisoned)
    /\ [][\A t \in Threads :
            /\ callback_panic_poisons_value(t)
            /\ poisoned_value_faults(t)
            /\ others_complete(t)]_vars

(* After a callback on a handle has panicked, a get on the same handle has  *)
(* panicked at the Mutex without a callback, and then a delete of the       *)
(* handle has succeeded.                                                    *)
C21_Witness ==
    \E t \in Threads, t2 \in Threads :
        /\ t # t2
        /\ threads[t].pc = "returned"
        /\ threads[t].op \in WithOps
        /\ threads[t].result = "panic"
        /\ ~threads[t].called
        /\ ~rwlock.poisoned
        /\ threads[t2].pc = "returned"
        /\ threads[t2].op = "delete"
        /\ threads[t2].result = "Ok"
        /\ threads[t2].h = threads[t].h

----------------------------------------------------------------------------
(* A call of op on arena mn has just been made *)
called_on(mn, op) ==
    /\ last = NoCall
    /\ last'.op = op
    /\ last'.map = mn

(* How the step changes the occupied count of arena mn *)
len_follows_calls(mn) ==
    len(maps'[mn]) =
        IF called_on(mn, "insert") /\ last'.result = "Ok" THEN len(maps[mn]) + 1
        ELSE IF called_on(mn, "delete") /\ last'.result = "Ok" THEN len(maps[mn]) - 1
        ELSE len(maps[mn])

(* C22: in every arena state the occupied count len equals the number of    *)
(* Active slots: it is 0 after construction, rises by exactly one on each   *)
(* successful insert, falls by exactly one on each successful delete, and   *)
(* is unchanged by growth (and by every other call).                        *)
C22_LenCountsActiveSlots ==
    /\ [](\A mn \in MapNames : maps[mn] # NoMap =>
            /\ len(maps[mn]) = Cardinality(slots_where(maps[mn], is_occupied))
            /\ len(ensure_capacity(maps[mn], len(maps[mn]) + 1, debug_build).map)
                    = len(maps[mn]))
    /\ [](\A request \in {0, MIN_CAPACITY, 2 * MIN_CAPACITY} :
            /\ len(new_with_capacity(request, 0).map) = 0
            /\ slots_where(new_with_capacity(request, 0).map, is_occupied) = {})
    /\ [][\A mn \in MapNames : len_follows_calls(mn)]_vars

(* A grown arena after a successful delete: one value fewer than the        *)
(* capacity it was constructed with, in as many Active slots.               *)
C22_Witness ==
    /\ last.op = "delete"
    /\ last.result = "Ok"
    /\ capacity(maps["A"]) = 2 * MIN_CAPACITY - 1
    /\ len(maps["A"]) = MIN_CAPACITY - 1
    /\ Cardinality(slots_where(maps["A"], is_occupied)) = MIN_CAPACITY - 1

----------------------------------------------------------------------------
ValidationErrors == {"WrongMap", "IndexPastEnd", "StaleVersion"}

(* Handle h of arena mn was deleted, and its slot has not gone through all  *)
(* its versions since                                                       *)
already_deleted(mn, h) ==
    \E k \in DOMAIN tokens :
        /\ tokens[k].map = mn
        /\ tokens[k].h = h
        /\ ~tokens[k].live
        /\ tokens[k].reuses < VersionCycle
        /\ \A j \in DOMAIN tokens : (tokens[j].map = mn /\ tokens[j].h = h) => ~tokens[j].live

----------------------------------------------------------------------------
(* The 64-bit values that name slot i of arena m with m's id and a version  *)
(* at or next to the slot's, or one of the lowest versions                  *)
u64_for_slot(m, i) ==
    { <<HANDLE_MAGIC, m.id, i, version>> :
        version \in { (EntryAt(m, i).version + d) % U16_MOD : d \in {0, 1, U16_MAX} }
                    \cup {0, 1, 2} }

(* The handles a caller can hold for arena mn: those insert returned, and   *)
(* those from_u64 makes of the values naming a slot                         *)
obtainable_handles(mn) ==
    { tokens[k].h : k \in { j \in DOMAIN tokens : tokens[j].map = mn } }
    \cup { from_u64(u).handle :
            u \in { w \in UNION { u64_for_slot(maps[mn], i) :
                                    i \in 0..(capacity(maps[mn]) - 1) } :
                    from_u64(w).result = "Ok" } }

UnoccupiedAborts ==
    {"Bug: handle references unoccupied entry", "Bug: Handle created with invalid version"}

(* C24: for every handle obtainable through the public interface (returned  *)
(* by insert, or decoded by from_u64 from a 64-bit integer) and every       *)
(* reachable arena state, if check_handle succeeds the addressed slot is    *)
(* Active; so the abort 'handle references unoccupied entry' of delete and  *)
(* the abort 'Handle created with invalid version' of get and get_mut never *)
(* happen.                                                                  *)
C24_ValidatedSlotIsActive ==
    /\ fault \notin UnoccupiedAborts
    /\ \A mn \in MapNames : maps[mn] # NoMap =>
        \A h \in obtainable_handles(mn) :
            check_handle(maps[mn], h) = "Ok" =>
                /\ is_occupied(EntryAt(maps[mn], h.index).state)
                /\ get(maps[mn], h).fault = "none"
                /\ get_mut(maps[mn], h, PrefillValue).fault = "none"
                /\ delete(maps[mn], h, debug_build).fault \notin UnoccupiedAborts

(* After a delete: the value naming the freed slot with the slot's own      *)
(* version is refused by from_u64, and a value naming an Active slot with   *)
(* that slot's version decodes to a handle that validates.                  *)
C24_Witness ==
    /\ last.op = "delete"
    /\ last.result = "Ok"
    /\ LET m == maps[last.map]
           freed == EntryAt(m, last.h.index)
       IN  /\ ~is_occupied(freed.state)
           /\ from_u64(<<HANDLE_MAGIC, m.id, last.h.index, freed.version>>).result
                = "InvalidHandle"
           /\ \E i \in 0..(capacity(m) - 1) :
                LET d == from_u64(<<HANDLE_MAGIC, m.id, i, EntryAt(m, i).version>>)
                IN  /\ d.result = "Ok"
                    /\ d.handle \in obtainable_handles(last.map)
                    /\ check_handle(m, d.handle) = "Ok"
                    /\ is_occupied(EntryAt(m, i).state)

----------------------------------------------------------------------------
(* Thread t is inside a call of the ConcurrentHandleMap *)
in_call(t) == threads[t].pc \notin {"idle", "returned"}

(* C25: under fair scheduling, when every callback terminates and does not  *)
(* call into the same ConcurrentHandleMap, every insert, delete, get and    *)
(* get_mut call eventually ends (returns, or panics to its caller): no set  *)
(* of threads in these calls deadlocks.                                     *)
C25_EveryCallEnds ==
    \A t \in Threads : in_call(t) ~> (threads[t].pc = "returned")

(* A get_mut waits for the Mutex of a value while another thread is inside  *)
(* its callback on that value, and an insert or delete could not enter      *)
(* either: the only step any thread can take is the end of the callback.    *)
C25_Witness ==
    \E t \in Threads, t2 \in Threads :
        /\ threads[t].pc = "lock"
        /\ threads[t].op \in MutOps
        /\ ~ENABLED LockMutex(t)
        /\ threads[t2].pc = "callback"
        /\ threads[t2].h.index = threads[t].h.index
        /\ rwlock.readers = {t, t2}

=============================================================================
